---- MODULE Spec2Model ----
(***************************************************************************)
(* Mission / progression tracking of HoneycombService                      *)
(* (src/src/core/HoneycombService.ts).                                     *)
(*                                                                         *)
(* The service is a single-threaded, event-driven object.  Every public    *)
(* method runs to completion or to its next await; the awaits of           *)
(* connectWallet (ensureDevnetConnection, loadPlayerData) and of           *)
(* savePlayerData (edgeClient.updateCharacter) are the only suspension     *)
(* points, and each is one action of the model.                            *)
(***************************************************************************)
EXTENDS Integers, Sequences, FiniteSets, TLC

VARIABLES
    isConnected,        \* this.isConnected
    playerIdentity,     \* this.playerIdentity (Null or the record)
    activeMissions,     \* this.activeMissions, a Map in insertion order
    completedMissions,  \* this.completedMissions, a Set of mission ids
    actionCounts,       \* this.actionCounts, a Map from key to count
    pendingEnsure,      \* connectWallet calls suspended at ensureDevnetConnection
    pendingLoad,        \* connectWallet calls suspended in loadPlayerData
    saves,              \* updateCharacter requests in flight, oldest first
    effects,            \* what the last call did, in order: flags set, rewards
                        \* applied, notifications shown, events emitted, saves requested
    celebrated,         \* allMissionsCompleted was emitted since the last disconnect
    rewarded,           \* ids of the missions rewarded since the last disconnect
    hits,               \* per mission: matching action events since it was installed
    defaultMissions,    \* the mission list initializeDefaultMissions installs
    _instance           \* HoneycombService._instance: 0 while undefined, else the
                        \* serial number of the object `new HoneycombService()` made

vars == <<isConnected, playerIdentity, activeMissions, completedMissions,
          actionCounts, pendingEnsure, pendingLoad, saves, effects,
          celebrated, rewarded, hits, defaultMissions, _instance>>

----------------------------------------------------------------------------
(* Bounds of the model. *)

\* action events (trackBlockPlace/trackBlockBreak) between two disconnects
MaxActions == 3
\* connectWallet calls in flight at the same time
MaxInFlight == 1
\* block placements of one session played on the default catalog
MaxPlacements == 55
\* placements of one block type in a session whose placements keep coming
MaxOfType == 20

----------------------------------------------------------------------------
(* Values. *)

\* null, for playerIdentity and for a character the store does not have
Null == [null |-> TRUE]

\* the block types the world reports
BlockTypes == {"STONE", "WOOD"}

\* the block types the default catalog names
CatalogBlockTypes == {"STONE", "PLANKS", "GLASS"}

\* Mission.progress is the float totalCurrent / totalRequired; it is kept
\* as the exact fraction <<numerator, denominator>>.
Frac(n, d) == <<n, d>>
FracGeq1(p) == p[1] >= p[2]
FracEq1(p) == p[1] = p[2]
FracLeq(p, q) == p[1] * q[2] <= q[1] * p[2]

\* Math.min(totalCurrent / totalRequired, 1)
MinWithOne(totalCurrent, totalRequired) ==
    IF totalCurrent >= totalRequired THEN Frac(1, 1)
    ELSE Frac(totalCurrent, totalRequired)

Req(type, target, amount) ==
    [type |-> type, target |-> target, amount |-> amount, current |-> 0]

Reward(type, value) == [type |-> type, value |-> value]

NewMission(id, requirements, rewards) ==
    [id |-> id, requirements |-> requirements, rewards |-> rewards,
     completed |-> FALSE, progress |-> Frac(0, 1)]

getDefaultTraits ==
    [t \in {"builder", "architect", "artist", "craftsman"} |-> 0]

getDefaultResources ==
    [r \in {"stone", "wood", "glass", "diamond"} |->
        [amount |-> 0,
         rarity |-> CASE r = "glass" -> "rare"
                      [] r = "diamond" -> "legendary"
                      [] OTHER -> "common"]]

\* the record connectWallet creates
DefaultIdentity ==
    [experience |-> 0, level |-> 1, nectarBalance |-> 0,
     traits |-> getDefaultTraits, resources |-> getDefaultResources]

----------------------------------------------------------------------------
(* Mission catalogs. *)

first_builder ==
    NewMission("first_builder",
        << Req("block_place", "any", 1) >>,
        << Reward("xp", 10), Reward("nectar", 5), Reward("trait", "builder") >>)

stone_house ==
    NewMission("stone_house",
        << Req("block_place", "STONE", 20) >>,
        << Reward("xp", 50), Reward("nectar", 25), Reward("resource", "stone"),
           Reward("trait", "builder") >>)

wooden_structures ==
    NewMission("wooden_structures",
        << Req("block_place", "PLANKS", 15) >>,
        << Reward("xp", 30), Reward("nectar", 15), Reward("resource", "wood"),
           Reward("trait", "builder") >>)

glass_artist ==
    NewMission("glass_artist",
        << Req("block_place", "GLASS", 10) >>,
        << Reward("xp", 40), Reward("nectar", 20), Reward("resource", "glass"),
           Reward("trait", "artist") >>)

master_builder ==
    NewMission("master_builder",
        << Req("block_place", "any", 50) >>,
        << Reward("xp", 100), Reward("nectar", 50), Reward("resource", "diamond"),
           Reward("trait", "architect") >>)

\* the list in initializeDefaultMissions
DefaultMissionList ==
    << first_builder, stone_house, wooden_structures, glass_artist, master_builder >>

\* Bounded catalogs over which the general properties are quantified.
\* two missions, the second with a specific target
TwoMissionList ==
    << first_builder,
       NewMission("stone_pair",
           << Req("block_place", "STONE", 2) >>,
           << Reward("xp", 95), Reward("resource", "stone"),
              Reward("achievement", "mason") >>) >>

\* one mission with two requirements of different kinds, and rewards that
\* name a trait and a resource the record does not have
MixedMissionList ==
    << NewMission("mixed",
           << Req("block_place", "STONE", 1), Req("block_break", "WOOD", 2) >>,
           << Reward("trait", "miner"), Reward("xp", 100),
              Reward("resource", "gold"), Reward("nectar", 7),
              Reward("trait", "craftsman"), Reward("xp", 5) >>) >>

\* a mission whose two requirements both match a placed STONE, and a
\* second mission that the same placement completes
OverlapMissionList ==
    << NewMission("overlap",
           << Req("block_place", "any", 1), Req("block_place", "STONE", 1) >>,
           << Reward("xp", 20), Reward("trait", "artist") >>),
       NewMission("twin",
           << Req("block_place", "STONE", 1) >>,
           << Reward("nectar", 3) >>) >>

\* three missions, so that the completed share is not a whole percentage
ThreeMissionList ==
    << NewMission("stone_one",
           << Req("block_place", "STONE", 1) >>,
           << Reward("achievement", "first_stone") >>),
       NewMission("stone_two",
           << Req("block_place", "STONE", 2) >>,
           << Reward("achievement", "second_stone") >>),
       NewMission("stone_three",
           << Req("block_place", "STONE", 3) >>,
           << Reward("xp", 1) >>) >>

CatalogList ==
    << DefaultMissionList, TwoMissionList, MixedMissionList, OverlapMissionList,
       ThreeMissionList >>

----------------------------------------------------------------------------
(* The service's methods.  A synchronous call chain is one operator from   *)
(* the object's fields before the call to its fields after it; s is the    *)
(* record of the fields a mission update can touch.                        *)

Fields ==
    [playerIdentity |-> playerIdentity, activeMissions |-> activeMissions,
     completedMissions |-> completedMissions, saves |-> saves,
     effects |-> <<>>]

\* addExperience without the level-up branch
addExperienceFlat(s, amount) ==
    IF s.playerIdentity = Null THEN s
    ELSE [s EXCEPT !.playerIdentity.experience = @ + amount]

\* addExperience(amount)
addExperience(s, amount) ==
    IF s.playerIdentity = Null THEN s
    ELSE LET experience == s.playerIdentity.experience + amount
             newLevel == (experience \div 100) + 1
         IN [s EXCEPT !.playerIdentity.experience = experience,
                      !.playerIdentity.level =
                          IF newLevel > @ THEN newLevel ELSE @]

\* addTraitExperience(traitId, amount)
addTraitExperience(s, traitId, amount) ==
    IF s.playerIdentity = Null THEN s
    ELSE IF traitId \in DOMAIN s.playerIdentity.traits
         THEN [s EXCEPT !.playerIdentity.traits[traitId] = @ + amount]
         ELSE s

\* addNectar with the amount dropped
addNectarDropped(s, amount) == s

\* addNectar(amount)
addNectar(s, amount) ==
    IF s.playerIdentity = Null THEN s
    ELSE [s EXCEPT !.playerIdentity.nectarBalance = @ + amount]

\* addResource creating an entry for an id the record does not have
addResourceCreating(s, resourceId, amount) ==
    IF s.playerIdentity = Null THEN s
    ELSE [s EXCEPT !.playerIdentity.resources =
              [r \in DOMAIN @ \cup {resourceId} |->
                  IF r = resourceId
                  THEN [amount |-> (IF r \in DOMAIN @ THEN @[r].amount ELSE 0) + amount,
                        rarity |-> IF r \in DOMAIN @ THEN @[r].rarity ELSE "common"]
                  ELSE @[r]]]

\* addResource(resourceId, amount)
addResource(s, resourceId, amount) ==
    IF s.playerIdentity = Null THEN s
    ELSE IF resourceId \in DOMAIN s.playerIdentity.resources
         THEN [s EXCEPT !.playerIdentity.resources[resourceId].amount = @ + amount]
         ELSE s

\* applyReward with a resource reward worth two units
applyRewardDouble(s, reward) ==
    CASE reward.type = "xp" -> addExperience(s, reward.value)
      [] reward.type = "trait" -> addTraitExperience(s, reward.value, 1)
      [] reward.type = "nectar" -> addNectar(s, reward.value)
      [] reward.type = "resource" -> addResource(s, reward.value, 2)
      [] OTHER -> s

\* one iteration of the forEach over mission.rewards in completeMission
applyReward(s, reward) ==
    CASE reward.type = "xp" -> addExperience(s, reward.value)
      [] reward.type = "trait" -> addTraitExperience(s, reward.value, 1)
      [] reward.type = "nectar" -> addNectar(s, reward.value)
      [] reward.type = "resource" -> addResource(s, reward.value, 1)
      [] OTHER -> s

\* mission.rewards.forEach(...), from reward k on
RECURSIVE awardRewards(_, _, _)
awardRewards(s, rewards, k) ==
    IF k > Len(rewards) THEN s
    ELSE LET applied == applyReward(s, rewards[k])
         IN awardRewards([applied EXCEPT !.effects =
                              Append(@, [type |-> "reward", reward |-> rewards[k]])],
                         rewards, k + 1)

\* showMissionCompletionNotification(mission): the popup for one mission
showMissionCompletionNotification(s, mission) ==
    [s EXCEPT !.effects =
        Append(@, [type |-> "missionCompleted", missionId |-> mission.id,
                   rewards |-> mission.rewards])]

NumCompleted(missions) ==
    Cardinality({i \in 1..Len(missions) : missions[i].completed})

\* the celebration emitting the fallbacks of `|| 0` and `|| 1` in place of
\* the record's values
showAllMissionsCompletedCelebrationDefaults(s) ==
    [s EXCEPT !.effects =
        Append(@, [type |-> "allMissionsCompleted", totalXP |-> 0,
                   totalNectar |-> 0, level |-> 1,
                   completedMissions |-> s.completedMissions])]

\* showAllMissionsCompletedCelebration(): the popup and the emitted event
showAllMissionsCompletedCelebration(s) ==
    [s EXCEPT !.effects =
        Append(@, [type |-> "allMissionsCompleted",
                   totalXP |-> IF s.playerIdentity = Null THEN 0
                               ELSE s.playerIdentity.experience,
                   totalNectar |-> IF s.playerIdentity = Null THEN 0
                                   ELSE s.playerIdentity.nectarBalance,
                   level |-> IF s.playerIdentity = Null THEN 1
                             ELSE IF s.playerIdentity.level = 0 THEN 1
                             ELSE s.playerIdentity.level,
                   completedMissions |-> s.completedMissions])]

\* checkAllMissionsCompleted without the celebration
checkAllMissionsCompletedSilent(s) == s

\* checkAllMissionsCompleted without the comparison of the two counts
checkAllMissionsCompletedEager(s) ==
    IF Len(s.activeMissions) > 0
    THEN showAllMissionsCompletedCelebration(s)
    ELSE s

\* checkAllMissionsCompleted()
checkAllMissionsCompleted(s) ==
    LET completedCount == NumCompleted(s.activeMissions)
        totalMissions == Len(s.activeMissions)
    IN IF completedCount = totalMissions /\ totalMissions > 0
       THEN showAllMissionsCompletedCelebration(s)
       ELSE s

\* the argument of updateCharacter without the completed missions
SavePayloadBare(s) ==
    [experience |-> s.playerIdentity.experience,
     level |-> s.playerIdentity.level,
     nectarBalance |-> s.playerIdentity.nectarBalance,
     traits |-> s.playerIdentity.traits,
     resources |-> [r \in DOMAIN s.playerIdentity.resources |->
                        s.playerIdentity.resources[r].amount],
     completedMissions |-> {}]

\* the argument savePlayerData builds for edgeClient.updateCharacter
SavePayload(s) ==
    [experience |-> s.playerIdentity.experience,
     level |-> s.playerIdentity.level,
     nectarBalance |-> s.playerIdentity.nectarBalance,
     traits |-> s.playerIdentity.traits,
     resources |-> [r \in DOMAIN s.playerIdentity.resources |->
                        s.playerIdentity.resources[r].amount],
     completedMissions |-> s.completedMissions]

\* savePlayerData() skipping the request while another one is pending
savePlayerDataIfIdle(s) ==
    IF s.playerIdentity = Null \/ s.saves # <<>> THEN s
    ELSE [s EXCEPT !.saves = Append(@, SavePayload(s)),
                   !.effects = Append(@, [type |-> "saveRequested",
                                          data |-> SavePayload(s)])]

\* savePlayerData(), up to its await: the request is issued with a payload
\* built now; what follows the await only logs
savePlayerData(s) ==
    IF s.playerIdentity = Null THEN s
    ELSE [s EXCEPT !.saves = Append(@, SavePayload(s)),
                   !.effects = Append(@, [type |-> "saveRequested",
                                          data |-> SavePayload(s)])]

\* savePlayerData() after its await, with a failed request issued again
saveSettledRetry(s, outcome) ==
    IF outcome = "rejected"
    THEN savePlayerData([s EXCEPT !.effects =
                             Append(@, [type |-> "saveLogged", outcome |-> outcome])])
    ELSE [s EXCEPT !.effects =
              Append(@, [type |-> "saveLogged", outcome |-> outcome])]

\* savePlayerData() after its await: Logger.info when updateCharacter
\* resolved, Logger.error and console.error in the catch when it rejected
saveSettled(s, outcome) ==
    [s EXCEPT !.effects = Append(@, [type |-> "saveLogged", outcome |-> outcome])]

\* this.activeMissions.get(missionId): the index of the mission, 0 if none
MissionIndex(missions, missionId) ==
    IF \E i \in 1..Len(missions) : missions[i].id = missionId
    THEN CHOOSE i \in 1..Len(missions) : missions[i].id = missionId
    ELSE 0

\* completeMission leaving the rewards, the notifications and the save to a
\* later turn of the event loop
completeMissionDeferringRewards(s, missionId) ==
    LET i == MissionIndex(s.activeMissions, missionId)
    IN IF i = 0 THEN s
       ELSE IF s.activeMissions[i].completed THEN s
       ELSE [s EXCEPT !.activeMissions[i].completed = TRUE,
                      !.completedMissions = @ \cup {missionId},
                      !.effects = Append(@, [type |-> "completed",
                                             missionId |-> missionId])]

\* completeMission requesting the save before it awards the rewards
completeMissionSavingFirst(s, missionId) ==
    LET i == MissionIndex(s.activeMissions, missionId)
    IN IF i = 0 THEN s
       ELSE IF s.activeMissions[i].completed THEN s
       ELSE LET marked == [s EXCEPT !.activeMissions[i].completed = TRUE,
                                    !.completedMissions = @ \cup {missionId},
                                    !.effects = Append(@, [type |-> "completed",
                                                           missionId |-> missionId])]
                mission == marked.activeMissions[i]
                saved == savePlayerData(marked)
                awarded == awardRewards(saved, mission.rewards, 1)
                notified == showMissionCompletionNotification(awarded, mission)
            IN checkAllMissionsCompleted(notified)

\* completeMission(missionId), up to the await of savePlayerData
completeMission(s, missionId) ==
    LET i == MissionIndex(s.activeMissions, missionId)
    IN IF i = 0 THEN s
       ELSE IF s.activeMissions[i].completed THEN s
       ELSE LET marked == [s EXCEPT !.activeMissions[i].completed = TRUE,
                                    !.completedMissions = @ \cup {missionId},
                                    !.effects = Append(@, [type |-> "completed",
                                                           missionId |-> missionId])]
                mission == marked.activeMissions[i]
                awarded == awardRewards(marked, mission.rewards, 1)
                notified == showMissionCompletionNotification(awarded, mission)
                checked == checkAllMissionsCompleted(notified)
            IN savePlayerData(checked)

RECURSIVE SumAmount(_, _)
SumAmount(requirements, k) ==
    IF k > Len(requirements) THEN 0
    ELSE requirements[k].amount + SumAmount(requirements, k + 1)

RECURSIVE SumCurrent(_, _)
SumCurrent(requirements, k) ==
    IF k > Len(requirements) THEN 0
    ELSE requirements[k].current + SumCurrent(requirements, k + 1)

\* the matching test without the wildcard target
MatchesExactly(requirement, actionType, target) ==
    /\ requirement.type = actionType
    /\ requirement.target = target

\* the test of the inner forEach of updateMissionProgress
Matches(requirement, actionType, target) ==
    /\ requirement.type = actionType
    /\ (requirement.target = target \/ requirement.target = "any")

\* the body of the inner forEach completing only past the needed total
advanceRequirementLate(s, i, j) ==
    LET counted == [s EXCEPT !.activeMissions[i].requirements[j].current = @ + 1]
        reqs == counted.activeMissions[i].requirements
        totalRequired == SumAmount(reqs, 1)
        totalCurrent == SumCurrent(reqs, 1)
        progressed == [counted EXCEPT !.activeMissions[i].progress =
                           MinWithOne(totalCurrent, totalRequired)]
        mission == progressed.activeMissions[i]
    IN IF totalCurrent > totalRequired /\ ~mission.completed
       THEN completeMission(progressed, mission.id)
       ELSE progressed

\* advanceRequirement completing only when every requirement has reached
\* its own amount
advanceRequirementEach(s, i, j) ==
    LET counted == [s EXCEPT !.activeMissions[i].requirements[j].current = @ + 1]
        reqs == counted.activeMissions[i].requirements
        progressed == [counted EXCEPT !.activeMissions[i].progress =
                           MinWithOne(SumCurrent(reqs, 1), SumAmount(reqs, 1))]
        mission == progressed.activeMissions[i]
    IN IF (\A r \in 1..Len(reqs) : reqs[r].current >= reqs[r].amount)
          /\ ~mission.completed
       THEN completeMission(progressed, mission.id)
       ELSE progressed

\* the body of the inner forEach for a matching requirement j of mission i
advanceRequirement(s, i, j) ==
    LET counted == [s EXCEPT !.activeMissions[i].requirements[j].current = @ + 1]
        reqs == counted.activeMissions[i].requirements
        totalRequired == SumAmount(reqs, 1)
        totalCurrent == SumCurrent(reqs, 1)
        progressed == [counted EXCEPT !.activeMissions[i].progress =
                           MinWithOne(totalCurrent, totalRequired)]
        mission == progressed.activeMissions[i]
    IN IF FracGeq1(mission.progress) /\ ~mission.completed
       THEN completeMission(progressed, mission.id)
       ELSE progressed

\* the requirement loop leaving the mission at its first matching requirement
forEachRequirementFirstMatch(s, i, j, actionType, target) ==
    LET matching == {k \in j..Len(s.activeMissions[i].requirements) :
                        Matches(s.activeMissions[i].requirements[k], actionType, target)}
    IN IF matching = {} THEN s
       ELSE advanceRequirement(s, i, CHOOSE k \in matching : \A n \in matching : k <= n)

\* mission.requirements.forEach(...), from requirement j on
RECURSIVE forEachRequirement(_, _, _, _, _)
forEachRequirement(s, i, j, actionType, target) ==
    IF j > Len(s.activeMissions[i].requirements) THEN s
    ELSE IF Matches(s.activeMissions[i].requirements[j], actionType, target)
         THEN forEachRequirement(advanceRequirement(s, i, j), i, j + 1,
                                 actionType, target)
         ELSE forEachRequirement(s, i, j + 1, actionType, target)

\* the mission loop without `if (mission.completed) return`
RECURSIVE forEachMissionVisitingAll(_, _, _, _)
forEachMissionVisitingAll(s, i, actionType, target) ==
    IF i > Len(s.activeMissions) THEN s
    ELSE forEachMissionVisitingAll(forEachRequirement(s, i, 1, actionType, target),
                                   i + 1, actionType, target)

\* this.activeMissions.forEach(...), from mission i on
RECURSIVE forEachMission(_, _, _, _)
forEachMission(s, i, actionType, target) ==
    IF i > Len(s.activeMissions) THEN s
    ELSE IF s.activeMissions[i].completed
         THEN forEachMission(s, i + 1, actionType, target)
         ELSE forEachMission(forEachRequirement(s, i, 1, actionType, target),
                             i + 1, actionType, target)

\* updateMissionProgress(actionType, target)
updateMissionProgress(s, actionType, target) ==
    forEachMission(s, 1, actionType, target)

\* this.actionCounts.get(key) || 0
CountOf(counts, key) == IF key \in DOMAIN counts THEN counts[key] ELSE 0

\* this.actionCounts.set(key, currentCount + 1)
Counted(counts, key) ==
    [k \in DOMAIN counts \cup {key} |->
        IF k = key THEN CountOf(counts, key) + 1 ELSE counts[k]]

EmptyMap == [k \in {} |-> 0]

RECURSIVE SumCounts(_, _)
SumCounts(counts, keys) ==
    IF keys = {} THEN 0
    ELSE LET k == CHOOSE x \in keys : TRUE
         IN counts[k] + SumCounts(counts, keys \ {k})

\* areAllMissionsCompleted()
areAllMissionsCompleted ==
    Len(activeMissions) > 0 /\ \A i \in 1..Len(activeMissions) : activeMissions[i].completed

\* Math.round(x / y * 100) for 0 <= x <= y, y > 0: the nearest integer, a
\* half rounded up.  With at most five missions the double x / y * 100 is
\* within 1e-13 of the exact quotient and never that close to a half.
RoundPercent(x, y) == (200 * x + y) \div (2 * y)

\* getCompletionStats() with the percentage truncated
getCompletionStatsTruncated ==
    LET completed == NumCompleted(activeMissions)
        total == Len(activeMissions)
    IN [completed |-> completed, total |-> total,
        percentage |-> IF total > 0 THEN (100 * completed) \div total ELSE 0]

\* getCompletionStats()
getCompletionStats ==
    LET completed == NumCompleted(activeMissions)
        total == Len(activeMissions)
    IN [completed |-> completed, total |-> total,
        percentage |-> IF total > 0 THEN RoundPercent(completed, total) ELSE 0]

----------------------------------------------------------------------------
(* The persistence store.  edgeClient.getCharacter answers with a          *)
(* character, with null, or by throwing.  A character's numeric fields are *)
(* read through `|| default`, so a missing field and 0 are the same; its   *)
(* completedMissions is an optional list: <<>> when missing, <<ids>> when  *)
(* present.                                                                *)

Character(experience, level, nectarBalance, traits, resources, completed) ==
    [experience |-> experience, level |-> level, nectarBalance |-> nectarBalance,
     traits |-> traits, resources |-> resources, completedMissions |-> completed]

\* what the development getCharacter of initializeConnection returns
MockCharacter == Character(0, 1, 0, EmptyMap, EmptyMap, << {} >>)

\* a player who completed first_builder in an earlier session
ReturningCharacter ==
    Character(95, 1, 5, [t \in {"builder"} |-> 1], [r \in {"stone"} |-> 2],
              << {"first_builder"} >>)

\* a stored character whose level is not the one its experience gives:
\* loadPlayerData reads the two fields independently and checks neither
VeteranCharacter == Character(10, 3, 0, EmptyMap, EmptyMap, <<>>)

\* the answers of getCharacter; "throws" is a rejected request
LoadOutcomes ==
    << [kind |-> "data", characterData |-> MockCharacter],
       [kind |-> "data", characterData |-> ReturningCharacter],
       [kind |-> "data", characterData |-> VeteranCharacter],
       [kind |-> "data", characterData |-> Null],
       [kind |-> "throws", characterData |-> Null] >>

\* x || d for a number x
OrElse(x, d) == IF x = 0 THEN d ELSE x

\* loadPlayerData() after its await, on a record that is not null
loadedIdentity(identity, characterData) ==
    [experience |-> OrElse(characterData.experience, 0),
     level |-> OrElse(characterData.level, 1),
     nectarBalance |-> OrElse(characterData.nectarBalance, 0),
     traits |-> [t \in DOMAIN identity.traits |->
                    IF t \in DOMAIN characterData.traits
                    THEN OrElse(characterData.traits[t], identity.traits[t])
                    ELSE identity.traits[t]],
     resources |-> [r \in DOMAIN identity.resources |->
                    [identity.resources[r] EXCEPT !.amount =
                        IF r \in DOMAIN characterData.resources
                        THEN OrElse(characterData.resources[r], @)
                        ELSE @]]]

\* the set loadPlayerData leaves in this.completedMissions
loadedCompleted(completed, characterData) ==
    IF Len(characterData.completedMissions) > 0
    THEN characterData.completedMissions[1]
    ELSE completed

\* initializeDefaultMissions(): every mission of the list is set under its id
initializeDefaultMissions == defaultMissions

----------------------------------------------------------------------------
(* Actions: one per operation, or per resumption after an await. *)

TotalActions == SumCounts(actionCounts, DOMAIN actionCounts)

\* the call's effects include one of the given type
Emits(effs, type) == \E k \in 1..Len(effs) : effs[k].type = type

\* the ids of the missions the call completed
CompletedBy(effs) ==
    {effs[k].missionId : k \in {n \in 1..Len(effs) : effs[n].type = "completed"}}

\* how many of the call's effects are of the given type
EmitCount(effs, type) == Cardinality({k \in 1..Len(effs) : effs[k].type = type})

\* hits after an action event: every installed mission with a requirement
\* the event matches has seen one more matching event
HitsAfter(actionType, target) ==
    [i \in 1..Len(activeMissions) |->
        IF \E j \in 1..Len(activeMissions[i].requirements) :
               Matches(activeMissions[i].requirements[j], actionType, target)
        THEN hits[i] + 1 ELSE hits[i]]

Init ==
    /\ isConnected = FALSE
    /\ playerIdentity = Null
    /\ activeMissions = <<>>
    /\ completedMissions = {}
    /\ actionCounts = EmptyMap
    /\ pendingEnsure = 0
    /\ pendingLoad = 0
    /\ saves = <<>>
    /\ effects = <<>>
    /\ celebrated = FALSE
    /\ rewarded = {}
    /\ hits = <<>>
    /\ \E c \in 1..Len(CatalogList) : defaultMissions = CatalogList[c]
    /\ _instance = 1

\* connectWallet(publicKey) up to `await this.ensureDevnetConnection()`.
\* A pending save is inert (its resumption only logs and touches no field),
\* so a step of connectWallet or disconnectWallet commutes with it: the model
\* takes those steps only when no save is in flight, while block actions
\* run with any number of saves pending.
ConnectWallet ==
    /\ pendingEnsure + pendingLoad < MaxInFlight
    /\ saves = <<>>
    /\ pendingEnsure' = pendingEnsure + 1
    /\ effects' = <<>>
    /\ UNCHANGED <<isConnected, playerIdentity, activeMissions, completedMissions,
                   actionCounts, pendingLoad, saves, celebrated, rewarded, hits,
                   defaultMissions, _instance>>

\* connectWallet resumes after ensureDevnetConnection and runs up to the
\* await of getCharacter in loadPlayerData
ConnectWalletResume ==
    /\ pendingEnsure > 0
    /\ saves = <<>>
    /\ pendingEnsure' = pendingEnsure - 1
    /\ playerIdentity' = DefaultIdentity
    /\ isConnected' = TRUE
    /\ pendingLoad' = pendingLoad + 1
    /\ effects' = <<>>
    /\ UNCHANGED <<activeMissions, completedMissions, actionCounts, saves,
                   celebrated, rewarded, hits, defaultMissions, _instance>>

\* loadPlayerData resumes with the answer of getCharacter, returns, and
\* connectWallet installs the missions and returns true
LoadPlayerDataResume ==
    /\ pendingLoad > 0
    /\ saves = <<>>
    /\ pendingLoad' = pendingLoad - 1
    /\ \E o \in 1..Len(LoadOutcomes) :
        LET outcome == LoadOutcomes[o]
            \* a character is read into the record; on a null record the
            \* first assignment throws, which loadPlayerData catches
            assigns == /\ outcome.kind = "data"
                       /\ outcome.characterData # Null
                       /\ playerIdentity # Null
        IN /\ playerIdentity' =
                  IF assigns
                  THEN loadedIdentity(playerIdentity, outcome.characterData)
                  ELSE playerIdentity
           /\ completedMissions' =
                  IF assigns
                  THEN loadedCompleted(completedMissions, outcome.characterData)
                  ELSE completedMissions
           \* what connectWallet returns, and how its load ended: the catch
           \* of loadPlayerData swallows a rejected request and the
           \* TypeError of assigning to a null record alike
           /\ effects' = << [type |-> "connectWalletReturned", value |-> TRUE,
                             load |-> IF assigns THEN "loaded"
                                      ELSE IF outcome.kind = "data" /\ outcome.characterData = Null
                                           THEN "absent"
                                           ELSE "failed"] >>
    /\ activeMissions' = initializeDefaultMissions
    /\ hits' = [i \in 1..Len(initializeDefaultMissions) |-> 0]
    /\ UNCHANGED <<isConnected, actionCounts, pendingEnsure, saves,
                   celebrated, rewarded, defaultMissions, _instance>>

\* disconnectWallet() without `this.playerIdentity = null`
DisconnectWalletKeepingRecord ==
    /\ saves = <<>>
    /\ isConnected' = FALSE
    /\ activeMissions' = <<>>
    /\ completedMissions' = {}
    /\ actionCounts' = EmptyMap
    /\ effects' = << [type |-> "walletDisconnected"] >>
    /\ celebrated' = FALSE
    /\ rewarded' = {}
    /\ hits' = <<>>
    /\ UNCHANGED <<playerIdentity, pendingEnsure, pendingLoad, saves, defaultMissions,
                   _instance>>

\* disconnectWallet() without this.actionCounts.clear()
DisconnectWalletKeepingCounts ==
    /\ saves = <<>>
    /\ isConnected' = FALSE
    /\ playerIdentity' = Null
    /\ activeMissions' = <<>>
    /\ completedMissions' = {}
    /\ effects' = << [type |-> "walletDisconnected"] >>
    /\ celebrated' = FALSE
    /\ rewarded' = {}
    /\ hits' = <<>>
    /\ UNCHANGED <<actionCounts, pendingEnsure, pendingLoad, saves, defaultMissions, _instance>>

\* disconnectWallet(); its effect is the line it logs
DisconnectWallet ==
    /\ saves = <<>>
    /\ isConnected' = FALSE
    /\ playerIdentity' = Null
    /\ activeMissions' = <<>>
    /\ completedMissions' = {}
    /\ actionCounts' = EmptyMap
    /\ effects' = << [type |-> "walletDisconnected"] >>
    /\ celebrated' = FALSE
    /\ rewarded' = {}
    /\ hits' = <<>>
    /\ UNCHANGED <<pendingEnsure, pendingLoad, saves, defaultMissions, _instance>>

\* trackBlockBreak and trackBlockPlace without `if (!this.isConnected) return`
trackBlockUnguarded(prefix, actionType, blockType) ==
    LET s == updateMissionProgress(Fields, actionType, blockType)
    IN /\ actionCounts' = Counted(actionCounts, prefix \o blockType)
       /\ playerIdentity' = s.playerIdentity
       /\ activeMissions' = s.activeMissions
       /\ completedMissions' = s.completedMissions
       /\ saves' = s.saves
       /\ effects' = s.effects
       /\ celebrated' = (celebrated \/ Emits(s.effects, "allMissionsCompleted"))
       /\ rewarded' = rewarded \cup CompletedBy(s.effects)
       /\ hits' = HitsAfter(actionType, blockType)
       /\ UNCHANGED <<isConnected, pendingEnsure, pendingLoad, defaultMissions, _instance>>

\* the common body of trackBlockBreak and trackBlockPlace
trackBlock(prefix, actionType, blockType) ==
    IF ~isConnected
    THEN /\ effects' = <<>>
         /\ UNCHANGED <<isConnected, playerIdentity, activeMissions,
                        completedMissions, actionCounts, pendingEnsure,
                        pendingLoad, saves, celebrated, rewarded, hits, defaultMissions,
                        _instance>>
    ELSE LET s == updateMissionProgress(Fields, actionType, blockType)
         IN /\ actionCounts' = Counted(actionCounts, prefix \o blockType)
            /\ playerIdentity' = s.playerIdentity
            /\ activeMissions' = s.activeMissions
            /\ completedMissions' = s.completedMissions
            /\ saves' = s.saves
            /\ effects' = s.effects
            /\ celebrated' = (celebrated \/ Emits(s.effects, "allMissionsCompleted"))
            /\ rewarded' = rewarded \cup CompletedBy(s.effects)
            /\ hits' = HitsAfter(actionType, blockType)
            /\ UNCHANGED <<isConnected, pendingEnsure, pendingLoad,
                           defaultMissions, _instance>>

\* one action event, while the model's bound on events allows it
TrackBlock(prefix, actionType, blockType) ==
    /\ TotalActions < MaxActions
    /\ trackBlock(prefix, actionType, blockType)

\* trackBlockBreak(blockType)
TrackBlockBreak ==
    \E blockType \in BlockTypes :
        TrackBlock("break_", "block_break", blockType)

\* trackBlockPlace(blockType)
TrackBlockPlace ==
    \E blockType \in BlockTypes :
        TrackBlock("place_", "block_place", blockType)

\* the ids completeMission is called with a second time: the missions
\* already completed, and an id the catalog does not have
RepeatIds ==
    {activeMissions[i].id : i \in {k \in 1..Len(activeMissions) :
                                       activeMissions[k].completed}}
        \cup {"no_such_mission"}

\* completeMission(missionId) called for a completed or unknown mission
DuplicateCompletion ==
    \E missionId \in RepeatIds :
        LET s == completeMission(Fields, missionId)
        IN /\ playerIdentity' = s.playerIdentity
           /\ activeMissions' = s.activeMissions
           /\ completedMissions' = s.completedMissions
           /\ saves' = s.saves
           /\ effects' = s.effects
           /\ celebrated' = (celebrated \/ Emits(s.effects, "allMissionsCompleted"))
           /\ rewarded' = rewarded \cup CompletedBy(s.effects)
           /\ UNCHANGED <<isConnected, actionCounts, pendingEnsure, pendingLoad,
                          hits, defaultMissions, _instance>>

\* the object getPlayerIdentity() returns: this.playerIdentity itself, not
\* a copy holding the record's value
getPlayerIdentity == [ref |-> "this.playerIdentity"]

\* what is read through a returned object
Deref(object) ==
    IF object.ref = "this.playerIdentity" THEN playerIdentity ELSE object.value

\* the service's record after experience := v is written through a
\* returned object
WrittenThrough(object, v) ==
    IF object.ref = "this.playerIdentity"
    THEN [playerIdentity EXCEPT !.experience = v]
    ELSE playerIdentity

\* a caller calls getCompletionStats(); the returned value is the call's
\* only effect
GetCompletionStats ==
    /\ effects' = << [type |-> "stats", stats |-> getCompletionStats] >>
    /\ UNCHANGED <<isConnected, playerIdentity, activeMissions, completedMissions,
                   actionCounts, pendingEnsure, pendingLoad, saves, celebrated,
                   rewarded, hits, defaultMissions, _instance>>

\* s with its k-th element removed
RemoveAt(seq, k) ==
    [i \in 1..(Len(seq) - 1) |-> IF i < k THEN seq[i] ELSE seq[i + 1]]

\* savePlayerData resumes after updateCharacter resolved or rejected: it
\* logs either way
SavePlayerDataResume ==
    \E k \in 1..Len(saves), outcome \in {"resolved", "rejected"} :
        LET s == saveSettled([Fields EXCEPT !.saves = RemoveAt(saves, k)], outcome)
        IN /\ playerIdentity' = s.playerIdentity
           /\ activeMissions' = s.activeMissions
           /\ completedMissions' = s.completedMissions
           /\ saves' = s.saves
           /\ effects' = s.effects
           /\ UNCHANGED <<isConnected, actionCounts, pendingEnsure, pendingLoad,
                          celebrated, rewarded, hits, defaultMissions, _instance>>

Next ==
    \/ ConnectWallet
    \/ ConnectWalletResume
    \/ LoadPlayerDataResume
    \/ DisconnectWallet
    \/ TrackBlockBreak
    \/ TrackBlockPlace
    \/ DuplicateCompletion
    \/ GetCompletionStats
    \/ SavePlayerDataResume

Spec == Init /\ [][Next]_vars

----------------------------------------------------------------------------
(* One session on the default catalog: the wallet is connected, the store  *)
(* held the development character (no experience, nothing completed) and   *)
(* initializeDefaultMissions installed the five default missions.  The     *)
(* player then places blocks of the types the catalog names.               *)

InitDefault ==
    /\ isConnected = TRUE
    /\ playerIdentity = loadedIdentity(DefaultIdentity, MockCharacter)
    /\ activeMissions = DefaultMissionList
    /\ completedMissions = loadedCompleted({}, MockCharacter)
    /\ actionCounts = EmptyMap
    /\ pendingEnsure = 0
    /\ pendingLoad = 0
    /\ saves = <<>>
    /\ effects = << [type |-> "connectWalletReturned", value |-> TRUE,
                     load |-> "loaded"] >>
    /\ celebrated = FALSE
    /\ rewarded = {}
    /\ hits = [i \in 1..Len(DefaultMissionList) |-> 0]
    /\ defaultMissions = DefaultMissionList
    /\ _instance = 1

\* trackBlockPlace(blockType) on the default catalog
PlaceCatalogBlock ==
    \E blockType \in CatalogBlockTypes :
        /\ TotalActions < MaxPlacements
        /\ trackBlock("place_", "block_place", blockType)

\* The saves the completions start stay in flight: settling one touches no
\* field of the service (saveSettled), so the record is the same with it.
NextDefault == PlaceCatalogBlock

SpecDefault == InitDefault /\ [][NextDefault]_vars

----------------------------------------------------------------------------
(* One session on the default catalog in which the world keeps placing     *)
(* blocks of every type the catalog names: each trackBlockPlace(blockType) *)
(* that can run eventually does.  No disconnectWallet and no further       *)
(* connectWallet is made.                                                  *)

\* trackBlockPlace(blockType) for one block type
PlaceBlockOfType(blockType) ==
    /\ CountOf(actionCounts, "place_" \o blockType) < MaxOfType
    /\ trackBlock("place_", "block_place", blockType)

NextPlacing == \E blockType \in CatalogBlockTypes : PlaceBlockOfType(blockType)

\* The step trackBlockPlace(blockType) takes, told by the count it records.
\* trackBlockPlace is total, so this is enabled exactly when
\* PlaceBlockOfType(blockType) is, and a step of NextPlacing is this step
\* exactly when it is PlaceBlockOfType(blockType).
PlacementOfType(blockType) ==
    /\ CountOf(actionCounts, "place_" \o blockType) < MaxOfType
    /\ actionCounts' = Counted(actionCounts, "place_" \o blockType)

\* the world keeps placing blocks of every type: weak fairness per type
SpecPlacing ==
    /\ InitDefault
    /\ [][NextPlacing]_vars
    /\ \A blockType \in CatalogBlockTypes : WF_actionCounts(PlacementOfType(blockType))

----------------------------------------------------------------------------
(* The process from its start: HoneycombService._instance is undefined     *)
(* until the first init().  The other variables are the fields of the one  *)
(* object there can be; no method reads them while _instance is undefined, *)
(* and they hold the field initialisers from the start.                    *)

\* `new HoneycombService()`: the field initialisers, and no call in flight
\* on the new object
Constructed ==
    /\ isConnected' = FALSE
    /\ playerIdentity' = Null
    /\ activeMissions' = <<>>
    /\ completedMissions' = {}
    /\ actionCounts' = EmptyMap
    /\ pendingEnsure' = 0
    /\ pendingLoad' = 0
    /\ saves' = <<>>
    /\ celebrated' = FALSE
    /\ rewarded' = {}
    /\ hits' = <<>>

\* init() without `if (!HoneycombService._instance)`: every call makes an object
initConstructingAgain ==
    /\ _instance' = _instance + 1
    /\ Constructed
    /\ effects' = << [type |-> "initReturned", value |-> _instance + 1] >>
    /\ UNCHANGED defaultMissions

\* static init()
init ==
    IF _instance = 0
    THEN /\ _instance' = 1
         /\ Constructed
         /\ effects' = << [type |-> "initReturned", value |-> 1] >>
         /\ UNCHANGED defaultMissions
    ELSE /\ effects' = << [type |-> "initReturned", value |-> _instance] >>
         /\ UNCHANGED <<isConnected, playerIdentity, activeMissions,
                        completedMissions, actionCounts, pendingEnsure,
                        pendingLoad, saves, celebrated, rewarded, hits,
                        defaultMissions, _instance>>

\* static instance()
instance ==
    /\ effects' =
           IF _instance = 0
           THEN << [type |-> "instanceThrew",
                    value |-> "HoneycombService not initialized"] >>
           ELSE << [type |-> "instanceReturned", value |-> _instance] >>
    /\ UNCHANGED <<isConnected, playerIdentity, activeMissions,
                   completedMissions, actionCounts, pendingEnsure,
                   pendingLoad, saves, celebrated, rewarded, hits,
                   defaultMissions, _instance>>

\* a method called on the object init() or instance() returned
OnInstance == _instance # 0 /\ Next

InitSingleton ==
    /\ isConnected = FALSE
    /\ playerIdentity = Null
    /\ activeMissions = <<>>
    /\ completedMissions = {}
    /\ actionCounts = EmptyMap
    /\ pendingEnsure = 0
    /\ pendingLoad = 0
    /\ saves = <<>>
    /\ effects = <<>>
    /\ celebrated = FALSE
    /\ rewarded = {}
    /\ hits = <<>>
    /\ defaultMissions = DefaultMissionList
    /\ _instance = 0

NextSingleton ==
    \/ instance
    \/ init
    \/ OnInstance

SpecSingleton == InitSingleton /\ [][NextSingleton]_vars

----------------------------------------------------------------------------
(* One session on an arbitrary small catalog.  initializeDefaultMissions   *)
(* builds the catalog from literals; here the literals range over every    *)
(* catalog of one or two missions with one or two requirements each, so    *)
(* that updateMissionProgress is exercised on every shape of mission.      *)

\* the needed amounts of the requirements
AmountsNeeded == {1, 2}

RequirementPool ==
    {Req(type, target, amount) : type \in {"block_place", "block_break"},
                                 target \in {"STONE", "any"},
                                 amount \in AmountsNeeded}

RequirementLists ==
    {<< r >> : r \in RequirementPool}
        \cup {<< r1, r2 >> : r1 \in RequirementPool, r2 \in RequirementPool}

\* the rewards of the two missions: together they raise the level
FirstRewards == << Reward("xp", 60), Reward("trait", "builder") >>
SecondRewards == << Reward("xp", 50), Reward("nectar", 5), Reward("resource", "wood") >>

SmallCatalogs ==
    {<< NewMission("first", q, FirstRewards) >> : q \in RequirementLists}
        \cup {<< NewMission("first", q1, FirstRewards),
                 NewMission("second", q2, SecondRewards) >> :
                   q1 \in RequirementLists, q2 \in RequirementLists}

InitCatalogs ==
    /\ isConnected = TRUE
    /\ playerIdentity = loadedIdentity(DefaultIdentity, MockCharacter)
    /\ defaultMissions \in SmallCatalogs
    /\ _instance = 1
    /\ activeMissions = defaultMissions
    /\ completedMissions = loadedCompleted({}, MockCharacter)
    /\ actionCounts = EmptyMap
    /\ pendingEnsure = 0
    /\ pendingLoad = 0
    /\ saves = <<>>
    /\ effects = << [type |-> "connectWalletReturned", value |-> TRUE,
                     load |-> "loaded"] >>
    /\ celebrated = FALSE
    /\ rewarded = {}
    /\ hits = [i \in 1..Len(defaultMissions) |-> 0]

\* The block actions of the session; the saves stay in flight, as in
\* SpecDefault.
NextCatalogs ==
    \/ TrackBlockBreak
    \/ TrackBlockPlace

SpecCatalogs == InitCatalogs /\ [][NextCatalogs]_vars

----------------------------------------------------------------------------
(* Properties of mission progress and completion. *)

\* the needed amounts of the mission's requirements, summed
Needed(mission) == SumAmount(mission.requirements, 1)

\* no action event matches two requirements of the mission
NoSharedAction(mission) ==
    \A j, k \in 1..Len(mission.requirements) :
        LET a == mission.requirements[j]
            b == mission.requirements[k]
        IN j # k => \/ a.type # b.type
                    \/ (a.target # b.target /\ a.target # "any" /\ b.target # "any")

\* C1 as stated: a mission whose needed amounts sum to N is completed with
\* progress 1 after exactly N matching connected action events, and is not
\* completed after fewer than N.
C1_ExactlyNeededEvents ==
    \A i \in 1..Len(activeMissions) :
        LET mission == activeMissions[i]
        IN /\ hits[i] = Needed(mission) =>
                  mission.completed /\ FracEq1(mission.progress)
           /\ hits[i] < Needed(mission) => ~mission.completed

\* C1 amended: a mission is completed exactly when its requirements' counts
\* sum to at least N, and then has progress 1; every matching event since the
\* mission was installed raises that sum by at least one, so N matching
\* events complete it; fewer than N matching events leave it not completed
\* when no action matches two of its requirements.
C1_CompletedOnSummedCounts ==
    \A i \in 1..Len(activeMissions) :
        LET mission == activeMissions[i]
            totalCurrent == SumCurrent(mission.requirements, 1)
        IN /\ mission.completed <=> totalCurrent >= Needed(mission)
           /\ mission.completed => FracEq1(mission.progress)
           /\ hits[i] >= Needed(mission) => mission.completed
           /\ ~mission.completed => hits[i] <= totalCurrent
           /\ (NoSharedAction(mission) /\ hits[i] < Needed(mission)) =>
                  ~mission.completed

\* C1 witness: a mission needing two events, none of them shared, has seen
\* exactly two and is completed.
C1_CompletedAfterTwoEvents ==
    \E i \in 1..Len(activeMissions) :
        /\ Needed(activeMissions[i]) = 2
        /\ NoSharedAction(activeMissions[i])
        /\ hits[i] = 2
        /\ activeMissions[i].completed

\* C2 as stated: completeMission for a completed or unknown mission changes
\* nothing and produces no effect, and no mission is rewarded twice between
\* a connect and the next disconnect.
C2_RewardedOncePerSession ==
    [][ /\ \A missionId \in RepeatIds :
               completeMission(Fields, missionId) = Fields
        /\ \A missionId \in CompletedBy(effects') : missionId \notin rewarded
      ]_vars

----------------------------------------------------------------------------
(* Properties of rewards and of the level. *)

\* the values of the rewards of one type, from reward k on, summed
RECURSIVE RewardTotal(_, _, _)
RewardTotal(rewards, k, type) ==
    IF k > Len(rewards) THEN 0
    ELSE (IF rewards[k].type = type THEN rewards[k].value ELSE 0)
         + RewardTotal(rewards, k + 1, type)

\* how many rewards of one type name the given trait or resource
RewardCount(rewards, type, name) ==
    Cardinality({k \in 1..Len(rewards) :
                     rewards[k].type = type /\ rewards[k].value = name})

\* the missions of `before` that `after` shows completed for the first time
NewlyCompleted(before, after) ==
    {i \in 1..Len(before) : ~before[i].completed /\ after[i].completed}

RECURSIVE SumOver(_, _)
SumOver(f, S) ==
    IF S = {} THEN 0
    ELSE LET x == CHOOSE y \in S : TRUE
         IN f[x] + SumOver(f, S \ {x})

\* C3: in a call that completes missions, the record changes by exactly the
\* effect of their reward lists: experience by the xp rewards' sum, nectar
\* by the nectar rewards' sum, each trait and each resource amount by the
\* number of rewards naming it, nothing for an achievement or an unknown
\* name, and the level is unchanged or the one derived from the experience.
C3_RecordChangesByRewards ==
    [][ (playerIdentity # Null /\ CompletedBy(effects') # {}) =>
          LET done == NewlyCompleted(activeMissions, activeMissions')
              total(type) ==
                  SumOver([i \in done |->
                              RewardTotal(activeMissions[i].rewards, 1, type)], done)
              count(type, name) ==
                  SumOver([i \in done |->
                              RewardCount(activeMissions[i].rewards, type, name)], done)
              before == playerIdentity
              after == playerIdentity'
          IN /\ {activeMissions[i].id : i \in done} = CompletedBy(effects')
             /\ DOMAIN after = DOMAIN before
             /\ after.experience = before.experience + total("xp")
             /\ after.nectarBalance = before.nectarBalance + total("nectar")
             /\ DOMAIN after.traits = DOMAIN before.traits
             /\ \A name \in DOMAIN before.traits :
                    after.traits[name] = before.traits[name] + count("trait", name)
             /\ DOMAIN after.resources = DOMAIN before.resources
             /\ \A name \in DOMAIN before.resources :
                    /\ after.resources[name].amount =
                           before.resources[name].amount + count("resource", name)
                    /\ after.resources[name].rarity = before.resources[name].rarity
             /\ after.level \in {before.level, (after.experience \div 100) + 1}
      ]_vars

\* C3 witness: one call completed two missions and their rewards reached
\* the record.
C3_TwoMissionsRewarded ==
    /\ playerIdentity # Null
    /\ Cardinality(CompletedBy(effects)) = 2
    /\ playerIdentity.experience > 0
    /\ playerIdentity.nectarBalance > 0

\* C4 as stated: allMissionsCompleted is emitted once between a connect and
\* the next disconnect, only by the call that completes the last mission not
\* yet completed of a non-empty catalog, and never again after it fired.
C4_CelebratedOncePerSession ==
    [][ Emits(effects', "allMissionsCompleted") =>
          /\ ~celebrated
          /\ EmitCount(effects', "allMissionsCompleted") = 1
          /\ CompletedBy(effects') # {}
          /\ ~areAllMissionsCompleted
          /\ areAllMissionsCompleted'
      ]_vars

\* the call applied an xp reward, that is, called addExperience
AddedExperience(effs) ==
    \E k \in 1..Len(effs) : effs[k].type = "reward" /\ effs[k].reward.type = "xp"

C6_LevelNeverDecreases ==
    [][ (isConnected /\ isConnected' /\ playerIdentity # Null
            /\ playerIdentity' # Null) =>
          playerIdentity'.level >= playerIdentity.level
      ]_vars

----------------------------------------------------------------------------
(* Properties of the matching rule, of the scenarios and of the completed   *)
(* flag.                                                                    *)

\* the step is a connected trackBlockPlace / trackBlockBreak of the subject
IsTrackStep(prefix, subject) ==
    isConnected /\ actionCounts' = Counted(actionCounts, prefix \o subject)

\* C7: from a fresh record, with first_builder installed and untouched, one
\* connected block_place of any block type leaves first_builder with
\* progress 1 and completed, experience 10, level 1, nectar 5 and the trait
\* builder at 1.
C7_ScenarioA ==
    [][ \A subject \in BlockTypes, i \in 1..Len(activeMissions) :
          (/\ IsTrackStep("place_", subject)
           /\ playerIdentity = DefaultIdentity
           /\ activeMissions[i] = first_builder) =>
              /\ activeMissions'[i].id = "first_builder"
              /\ activeMissions'[i].progress = Frac(1, 1)
              /\ activeMissions'[i].completed
              /\ playerIdentity'.experience = 10
              /\ playerIdentity'.level = 1
              /\ playerIdentity'.nectarBalance = 5
              /\ playerIdentity'.traits["builder"] = 1
      ]_vars

\* C7 witness: the first placement of a fresh session completed
\* first_builder and paid its rewards.
C7_FirstBuilderRewarded ==
    /\ isConnected
    /\ TotalActions = 1
    /\ CompletedBy(effects) = {"first_builder"}
    /\ playerIdentity.experience = 10
    /\ playerIdentity.nectarBalance = 5
    /\ playerIdentity.traits["builder"] = 1

\* C8: a connected action event (kind, subject) raises a requirement of a
\* mission that was not completed when the call began by exactly 1 if the
\* requirement's type is kind and its target is subject or "any", and leaves
\* every other requirement's count as it was.
C8_MatchingRule ==
    [][ \A kind \in {"place", "break"}, subject \in BlockTypes :
          IsTrackStep(kind \o "_", subject) =>
              /\ Len(activeMissions') = Len(activeMissions)
              /\ \A i \in 1..Len(activeMissions) :
                   /\ Len(activeMissions'[i].requirements) =
                          Len(activeMissions[i].requirements)
                   /\ \A j \in 1..Len(activeMissions[i].requirements) :
                        LET requirement == activeMissions[i].requirements[j]
                            after == activeMissions'[i].requirements[j]
                            matched ==
                                /\ ~activeMissions[i].completed
                                /\ requirement.type = "block_" \o kind
                                /\ requirement.target \in {subject, "any"}
                        IN after = [requirement EXCEPT !.current =
                                        IF matched THEN @ + 1 ELSE @]
      ]_vars

\* C8 witness: WOOD was placed since the missions were installed and STONE
\* never was; a STONE requirement of a mission still open stands at 0.
C8_StoneUntouchedByWood ==
    /\ isConnected
    /\ "place_WOOD" \in DOMAIN actionCounts
    /\ "place_STONE" \notin DOMAIN actionCounts
    /\ \E i \in 1..Len(activeMissions) : hits[i] > 0
    /\ \E i \in 1..Len(activeMissions) :
           /\ ~activeMissions[i].completed
           /\ \E j \in 1..Len(activeMissions[i].requirements) :
                  /\ activeMissions[i].requirements[j].type = "block_place"
                  /\ activeMissions[i].requirements[j].target = "STONE"
                  /\ activeMissions[i].requirements[j].current = 0

\* C9: with k >= 2 missions installed, a call raises allMissionsCompleted
\* exactly when it completes a mission and leaves all k completed, never
\* while fewer than k are completed; getCompletionStats() then returns
\* completed = k, total = k, percentage = 100.
C9_ScenarioC ==
    [][ Len(activeMissions') >= 2 =>
          LET k == Len(activeMissions')
          IN /\ Emits(effects', "allMissionsCompleted") <=>
                    (CompletedBy(effects') # {} /\ NumCompleted(activeMissions') = k)
             /\ Emits(effects', "allMissionsCompleted") =>
                    getCompletionStats' =
                        [completed |-> k, total |-> k, percentage |-> 100]
      ]_vars

\* C9 witness: the call that completed the last of two missions raised
\* allMissionsCompleted, one mission having been completed by an earlier call.
C9_LastOfTwoCompleted ==
    /\ Len(activeMissions) = 2
    /\ Emits(effects, "allMissionsCompleted")
    /\ Cardinality(CompletedBy(effects)) = 1
    /\ getCompletionStats = [completed |-> 2, total |-> 2, percentage |-> 100]

\* C10 as stated: between a connect and the next disconnect a completed
\* mission stays completed, whatever is called.
C10_CompletedIsOneWay ==
    [][ (isConnected /\ isConnected') =>
          \A i \in 1..Len(activeMissions) :
              activeMissions[i].completed =>
                  \E k \in 1..Len(activeMissions') :
                      /\ activeMissions'[k].id = activeMissions[i].id
                      /\ activeMissions'[k].completed
      ]_vars

----------------------------------------------------------------------------
(* Properties of the session: progress, experience, completedMissions. *)

\* C11 as stated: every mission's progress is within [0, 1], and between a
\* connect and the next disconnect the progress of a mission never decreases.
C11_ProgressBoundedAndMonotone ==
    [][ /\ \A i \in 1..Len(activeMissions') :
               LET p == activeMissions'[i].progress
               IN p[2] > 0 /\ 0 <= p[1] /\ p[1] <= p[2]
        /\ (isConnected /\ isConnected') =>
               \A i \in 1..Len(activeMissions), k \in 1..Len(activeMissions') :
                   activeMissions'[k].id = activeMissions[i].id =>
                       FracLeq(activeMissions[i].progress,
                               activeMissions'[k].progress)
      ]_vars


\* C12 as stated: between a connect and the next disconnect the experience
\* is a non-negative integer and never decreases from one state to the next.
C12_ExperienceNeverDecreases ==
    [][ /\ playerIdentity' # Null => playerIdentity'.experience \in Nat
        /\ (isConnected /\ isConnected' /\ playerIdentity # Null
               /\ playerIdentity' # Null) =>
               playerIdentity'.experience >= playerIdentity.experience
      ]_vars


\* C13 as stated: between a connect and the next disconnect the set
\* completedMissions only grows: no id in it is ever removed.
C13_CompletedMissionsOnlyGrows ==
    [][ (isConnected /\ isConnected') =>
            completedMissions \subseteq completedMissions'
      ]_vars


----------------------------------------------------------------------------
(* Properties of saving. *)

\* the call logged the outcome of a save request
Logged(effs, outcome) ==
    \E k \in 1..Len(effs) : effs[k].type = "saveLogged" /\ effs[k].outcome = outcome

\* C14: when the save of a completion is rejected, the record, the missions
\* and completedMissions keep their values, the request is dropped and no
\* other save is requested, and nothing but the log entry results.
C14_FailedSaveKeepsState ==
    [][ Logged(effects', "rejected") =>
          /\ playerIdentity' = playerIdentity
          /\ activeMissions' = activeMissions
          /\ completedMissions' = completedMissions
          /\ Len(saves') = Len(saves) - 1
          /\ \E k \in 1..Len(saves) : saves' = RemoveAt(saves, k)
          /\ ~Emits(effects', "saveRequested")
          /\ effects' = << [type |-> "saveLogged", outcome |-> "rejected"] >>
          /\ isConnected' = isConnected
          /\ actionCounts' = actionCounts
      ]_vars

\* C14 witness: the save of a completion was rejected, and the completed
\* mission and its rewards are still in memory.
C14_SaveRejectedAfterCompletion ==
    /\ Logged(effects, "rejected")
    /\ playerIdentity # Null
    /\ playerIdentity.experience > 0
    /\ \E i \in 1..Len(activeMissions) :
           activeMissions[i].completed /\ activeMissions[i].id \in completedMissions


\* C15: a connected block action with saves pending updates the record, the
\* missions and completedMissions, and requests saves, exactly as the same
\* action does with no save pending, leaving the pending requests as they
\* are; and the settling of a save, resolved or rejected, changes no field
\* but the list of pending requests.
C15_PendingSaveNeverBlocks ==
    [][ /\ \A kind \in {"place", "break"}, subject \in BlockTypes :
              IsTrackStep(kind \o "_", subject) =>
                  LET idle == updateMissionProgress(
                                  [Fields EXCEPT !.saves = <<>>],
                                  "block_" \o kind, subject)
                  IN /\ playerIdentity' = idle.playerIdentity
                     /\ activeMissions' = idle.activeMissions
                     /\ completedMissions' = idle.completedMissions
                     /\ effects' = idle.effects
                     /\ saves' = saves \o idle.saves
        /\ Emits(effects', "saveLogged") =>
              /\ playerIdentity' = playerIdentity
              /\ activeMissions' = activeMissions
              /\ completedMissions' = completedMissions
              /\ actionCounts' = actionCounts
              /\ isConnected' = isConnected
      ]_vars

\* C15 witness: a block action completed a mission while the save of an
\* earlier call was still pending.
C15_CompletedWhileSavePending ==
    /\ Emits(effects, "completed")
    /\ Len(saves) > EmitCount(effects, "saveRequested")


\* the effects of one type, in the order the call produced them
EffectsOf(effs, type) == SelectSeq(effs, LAMBDA e : e.type = type)

\* the record after the rewards of the missions at the given indexes were
\* added to the record of the current state, as a save payload
PayloadAfterRewards(indexes) ==
    LET total(type) ==
            SumOver([i \in indexes |->
                        RewardTotal(activeMissions[i].rewards, 1, type)], indexes)
        count(type, name) ==
            SumOver([i \in indexes |->
                        RewardCount(activeMissions[i].rewards, type, name)], indexes)
        experience == playerIdentity.experience + total("xp")
        derived == (experience \div 100) + 1
    IN [experience |-> experience,
        level |-> IF derived > playerIdentity.level THEN derived
                  ELSE playerIdentity.level,
        nectarBalance |-> playerIdentity.nectarBalance + total("nectar"),
        traits |-> [name \in DOMAIN playerIdentity.traits |->
                       playerIdentity.traits[name] + count("trait", name)],
        resources |-> [name \in DOMAIN playerIdentity.resources |->
                          playerIdentity.resources[name].amount
                              + count("resource", name)],
        completedMissions |->
            completedMissions \cup {activeMissions[i].id : i \in indexes}]

\* C16: a call requests one save for each mission it completes and none
\* when it completes no mission; the payload of the k-th request is the
\* record as it is after the rewards of the first k missions the call
\* completed, with their ids in completedMissions; a request already pending
\* keeps its payload whatever happens to the record.
C16_OneSavePerCompletion ==
    [][ LET done == EffectsOf(effects', "completed")
            asked == EffectsOf(effects', "saveRequested")
        IN /\ Len(asked) = Len(done)
           /\ \A k \in 1..Len(done) :
                  asked[k].data =
                      PayloadAfterRewards(
                          {MissionIndex(activeMissions, done[j].missionId) :
                               j \in 1..k})
           /\ IF Emits(effects', "saveLogged")
              THEN \E k \in 1..Len(saves) : saves' = RemoveAt(saves, k)
              ELSE saves' = saves \o [k \in 1..Len(asked) |-> asked[k].data]
      ]_vars

\* C16 witness: a save is pending whose payload is the record of the
\* completion that requested it, and the record has gained experience since.
C16_PendingPayloadKept ==
    /\ playerIdentity # Null
    /\ Len(saves) >= 2
    /\ saves[1].experience < playerIdentity.experience
    /\ saves[Len(saves)] = SavePayload(Fields)


----------------------------------------------------------------------------
(* Properties of single rewards and of the accessors. *)

\* the reward names a trait or a resource the record does not have
NamesUnknown(reward) ==
    \/ reward.type = "trait" /\ reward.value \notin DOMAIN playerIdentity.traits
    \/ reward.type = "resource" /\ reward.value \notin DOMAIN playerIdentity.resources

\* C17: a trait or resource reward naming an id the record does not have
\* changes nothing; a resource reward naming a known resource raises its
\* amount by 1 and leaves its rarity and every other entry as they were; and
\* a mission with such a reward still completes: every reward of its list is
\* gone through, the known ones are applied, the mission is marked completed
\* and recorded, its notification is shown and its save is requested.
C17_UnknownRewardIgnored ==
    [][ /\ playerIdentity # Null =>
              \A i \in 1..Len(activeMissions) :
                  \A k \in 1..Len(activeMissions[i].rewards) :
                      LET reward == activeMissions[i].rewards[k]
                      IN /\ NamesUnknown(reward) =>
                                applyReward(Fields, reward) = Fields
                         /\ (reward.type = "resource" /\ ~NamesUnknown(reward)) =>
                                applyReward(Fields, reward) =
                                    [Fields EXCEPT
                                        !.playerIdentity.resources[reward.value].amount
                                            = @ + 1]
        /\ \A i \in 1..Len(activeMissions) :
              (/\ activeMissions[i].id \in CompletedBy(effects')
               /\ \E k \in 1..Len(activeMissions[i].rewards) :
                      NamesUnknown(activeMissions[i].rewards[k])) =>
                  LET mission == activeMissions[i]
                      mine == NewlyCompleted(activeMissions, activeMissions')
                      known(type) ==
                          SumOver([m \in mine |->
                                      RewardTotal(activeMissions[m].rewards, 1, type)],
                                  mine)
                  IN /\ activeMissions'[i].completed
                     /\ mission.id \in completedMissions'
                     /\ \A k \in 1..Len(mission.rewards) :
                            \E e \in 1..Len(effects') :
                                /\ effects'[e].type = "reward"
                                /\ effects'[e].reward = mission.rewards[k]
                     /\ \E e \in 1..Len(effects') :
                            /\ effects'[e].type = "missionCompleted"
                            /\ effects'[e].missionId = mission.id
                     /\ Emits(effects', "saveRequested")
                     /\ DOMAIN playerIdentity'.traits = DOMAIN playerIdentity.traits
                     /\ DOMAIN playerIdentity'.resources =
                            DOMAIN playerIdentity.resources
                     /\ playerIdentity'.experience =
                            playerIdentity.experience + known("xp")
                     /\ playerIdentity'.nectarBalance =
                            playerIdentity.nectarBalance + known("nectar")
                     /\ \A name \in DOMAIN playerIdentity.resources :
                            playerIdentity'.resources[name].rarity =
                                playerIdentity.resources[name].rarity
      ]_vars

\* C17 witness: the mission whose rewards name the unknown trait miner and
\* the unknown resource gold was completed, and its other rewards were paid.
C17_MixedCompletedDespiteUnknown ==
    /\ playerIdentity # Null
    /\ "mixed" \in CompletedBy(effects)
    /\ "miner" \notin DOMAIN playerIdentity.traits
    /\ "gold" \notin DOMAIN playerIdentity.resources
    /\ playerIdentity.traits["craftsman"] >= 1
    /\ playerIdentity.nectarBalance >= 7
    /\ Emits(effects, "saveRequested")


\* C18 as stated: what getPlayerIdentity() returned is a read-only copy: it
\* still shows the record as it was at the call, whatever was completed
\* since, and a write through it leaves the service's record as it is.
C18_SnapshotIsCopy ==
    [][ (playerIdentity # Null /\ CompletedBy(effects') # {}) =>
          LET returned == getPlayerIdentity
          IN /\ Deref(returned)' = Deref(returned)
             /\ WrittenThrough(returned, playerIdentity.experience + 1)
                    = playerIdentity
      ]_vars


\* how many missions of the list, from mission i on, have the completed flag
RECURSIVE CountCompleted(_, _)
CountCompleted(missions, i) ==
    IF i > Len(missions) THEN 0
    ELSE (IF missions[i].completed THEN 1 ELSE 0) + CountCompleted(missions, i + 1)

\* C19: getCompletionStats() returns the number of missions whose completed
\* flag is set, the number of missions, and their ratio as a percentage
\* rounded to the nearest integer (0 with no missions); the counts satisfy
\* 0 <= completed <= total, the percentage is within 0..100, and the call
\* changes no field.
C19_CompletionStats ==
    [][ Emits(effects', "stats") =>
          LET stats == effects'[1].stats
              completed == CountCompleted(activeMissions, 1)
              total == Len(activeMissions)
          IN /\ Len(effects') = 1
             /\ stats.completed = completed
             /\ stats.total = total
             /\ total = 0 => stats.percentage = 0
             /\ total > 0 =>
                    /\ 2 * stats.percentage * total <= 200 * completed + total
                    /\ 200 * completed + total < 2 * (stats.percentage + 1) * total
             /\ 0 <= stats.completed /\ stats.completed <= stats.total
             /\ 0 <= stats.percentage /\ stats.percentage <= 100
             /\ UNCHANGED <<isConnected, playerIdentity, activeMissions,
                            completedMissions, actionCounts, saves>>
      ]_vars

\* C19 witness: with two of three missions completed the call returned 67.
C19_TwoOfThree ==
    /\ Emits(effects, "stats")
    /\ effects[1].stats = [completed |-> 2, total |-> 3, percentage |-> 67]


----------------------------------------------------------------------------
(* The default catalog played to the end (SpecDefault). *)

\* the record the README's per-mission rewards add up to
AllRewardsRecord ==
    [experience |-> 230, level |-> 3, nectarBalance |-> 115,
     traits |-> [t \in {"builder", "architect", "artist", "craftsman"} |->
                    CASE t = "builder" -> 3
                      [] t = "artist" -> 1
                      [] t = "architect" -> 1
                      [] OTHER -> 0],
     resources |-> [r \in {"stone", "wood", "glass", "diamond"} |->
                    [getDefaultResources[r] EXCEPT !.amount = 1]]]

\* C20: on the default catalog and a fresh record, once all five missions
\* are completed, in whatever order the placements completed them, the
\* record is exactly experience 230, level 3, nectarBalance 115, traits
\* builder 3 / artist 1 / architect 1 / craftsman 0 and one of each resource.
C20_DefaultCatalogTotals ==
    (/\ Len(activeMissions) = 5
     /\ \A i \in 1..Len(activeMissions) : activeMissions[i].completed)
        => playerIdentity = AllRewardsRecord

\* all five completed, master_builder before glass_artist: the fiftieth
\* placement came before the tenth glass block
C20_AllFiveMasterBeforeGlass ==
    /\ \A i \in 1..Len(activeMissions) : activeMissions[i].completed
    /\ Len(activeMissions) = 5
    /\ rewarded = {"first_builder", "stone_house", "wooden_structures",
                   "glass_artist", "master_builder"}
    /\ CountOf(actionCounts, "place_GLASS") = 10
    /\ TotalActions > 50
    /\ Len(effects) > 0
    /\ CompletedBy(effects) = {"glass_artist"}


----------------------------------------------------------------------------
(* Connecting and disconnecting. *)

\* the mission is as initializeDefaultMissions builds it
Untouched(mission) ==
    /\ ~mission.completed
    /\ FracLeq(mission.progress, Frac(0, 1))
    /\ \A j \in 1..Len(mission.requirements) : mission.requirements[j].current = 0

\* C21: disconnectWallet resets the session from any state: right after it
\* isConnected is false, the record is null and the mission catalog,
\* completedMissions and actionCounts are empty; the missions the next
\* session starts with, and the missions a connect installs, all have
\* progress 0, completed false and every requirement counter 0.
C21_DisconnectResets ==
    [][/\ Emits(effects', "walletDisconnected")
            => /\ ~isConnected'
               /\ playerIdentity' = Null
               /\ activeMissions' = <<>>
               /\ completedMissions' = {}
               /\ actionCounts' = EmptyMap
       /\ ((~isConnected /\ isConnected') \/ (activeMissions = <<>> /\ activeMissions' # <<>>))
            => \A i \in 1..Len(activeMissions') : Untouched(activeMissions'[i])]_vars

\* the wallet was disconnected while a connectWallet was waiting for its load
C21_DisconnectedDuringLoad ==
    /\ Emits(effects, "walletDisconnected")
    /\ pendingLoad > 0
    /\ ~isConnected
    /\ activeMissions = <<>>


\* the effect of a connectWallet that returned after a failed load
FailedLoadReturn(effs) ==
    {k \in 1..Len(effs) : effs[k].type = "connectWalletReturned" /\ effs[k].load = "failed"}

\* C22: if the load fails or throws during connectWallet, connectWallet
\* still returns true and the session starts connected with the default
\* record and the default mission catalog.
C22_LoadFailureTolerated ==
    [][FailedLoadReturn(effects') # {}
         => /\ \A k \in FailedLoadReturn(effects') : effects'[k].value = TRUE
            /\ isConnected'
            /\ playerIdentity' = DefaultIdentity
            /\ activeMissions' = defaultMissions]_vars


\* C23: once connectWallet has marked the session connected, a block action
\* issued while the load is still pending is counted towards the session's
\* missions: the catalog is there, and every mission with a requirement the
\* placement matches has counted it.
C23_ActionsCountedDuringLoad ==
    [][\A blockType \in BlockTypes :
         (IsTrackStep("place_", blockType) /\ pendingLoad > 0)
            => /\ activeMissions' # <<>>
               /\ \A i \in 1..Len(activeMissions') :
                    \A j \in 1..Len(activeMissions'[i].requirements) :
                        Matches(activeMissions'[i].requirements[j], "block_place", blockType)
                            => activeMissions'[i].requirements[j].current >= 1]_vars


----------------------------------------------------------------------------
(* The shape of mission progress. *)

\* C24: in every state between operations a mission is completed exactly
\* when its requirements' current counts sum to at least the sum of their
\* needed amounts, which is exactly when its progress is 1; the combined
\* total decides, not each requirement's own target.
C24_CompletedIffTotalReached ==
    \A i \in 1..Len(activeMissions) :
        LET mission == activeMissions[i]
            reached == SumCurrent(mission.requirements, 1) >= SumAmount(mission.requirements, 1)
        IN /\ mission.completed <=> reached
           /\ mission.completed <=> FracEq1(mission.progress)
           /\ FracLeq(mission.progress, Frac(1, 1))

\* a mission completed on the combined total while one of its requirements
\* has not seen a single matching action
C24_CompletedWithRequirementUnmet ==
    \E i \in 1..Len(activeMissions) :
        /\ activeMissions[i].completed
        /\ \E j \in 1..Len(activeMissions[i].requirements) :
               activeMissions[i].requirements[j].current = 0
        /\ Emits(effects, "completed")


\* The three phases of recordAction as the design document words them.
\* Phase 1: every requirement of every Active mission that the event
\* matches is incremented.
IncrementPhase(s, actionType, target) ==
    LET incremented(mission) ==
            [mission EXCEPT !.requirements =
                [j \in 1..Len(mission.requirements) |->
                    IF Matches(mission.requirements[j], actionType, target)
                    THEN [mission.requirements[j] EXCEPT !.current = @ + 1]
                    ELSE mission.requirements[j]]]
    IN [s EXCEPT !.activeMissions =
           [i \in 1..Len(s.activeMissions) |->
               IF s.activeMissions[i].completed THEN s.activeMissions[i]
               ELSE incremented(s.activeMissions[i])]]

\* Phase 2: progress = clamp(sumCurrent / sumNeeded, 0, 1) of every Active
\* mission.
RecomputePhase(s) ==
    [s EXCEPT !.activeMissions =
        [i \in 1..Len(s.activeMissions) |->
            IF s.activeMissions[i].completed THEN s.activeMissions[i]
            ELSE [s.activeMissions[i] EXCEPT !.progress =
                     MinWithOne(SumCurrent(s.activeMissions[i].requirements, 1),
                                SumAmount(s.activeMissions[i].requirements, 1))]]]

\* Phase 3: every mission with progress >= 1 that is not yet completed is
\* completed, once, in catalog order.
RECURSIVE CompletePhase(_, _)
CompletePhase(s, i) ==
    IF i > Len(s.activeMissions) THEN s
    ELSE LET mission == s.activeMissions[i]
         IN IF FracGeq1(mission.progress) /\ ~mission.completed
            THEN CompletePhase(completeMission(s, mission.id), i + 1)
            ELSE CompletePhase(s, i + 1)

recordAction(s, actionType, target) ==
    CompletePhase(RecomputePhase(IncrementPhase(s, actionType, target)), 1)

\* the two fractions are the same number
SameFraction(p, q) == p[1] * q[2] = q[1] * p[2]

\* the two catalogs agree on counters, progress values and completed flags
SameMissions(left, right) ==
    /\ Len(left) = Len(right)
    /\ \A i \in 1..Len(left) :
        /\ left[i].id = right[i].id
        /\ left[i].requirements = right[i].requirements
        /\ left[i].completed = right[i].completed
        /\ SameFraction(left[i].progress, right[i].progress)

\* C25: for every small catalog, record and action event, the state
\* updateMissionProgress ends in (it recomputes progress and checks
\* completion after each single increment) has the same requirement
\* counters, progress values, completed flags, player record, completed
\* set, notification sequence and save requests as the three-phase
\* recordAction.
C25_SameAsThreePhases ==
    [][\A blockType \in BlockTypes :
         \A kind \in {<<"place_", "block_place">>, <<"break_", "block_break">>} :
            IsTrackStep(kind[1], blockType)
                => LET r == recordAction(Fields, kind[2], blockType)
                   IN /\ SameMissions(activeMissions', r.activeMissions)
                      /\ playerIdentity' = r.playerIdentity
                      /\ completedMissions' = r.completedMissions
                      /\ effects' = r.effects
                      /\ saves' = r.saves]_vars

\* a mission completed by this call whose counters sum to more than is
\* needed: it was completed at the first of two increments of the call
C25_CompletedBeforeLastIncrement ==
    \E i \in 1..Len(activeMissions) :
        /\ activeMissions[i].id \in CompletedBy(effects)
        /\ SumCurrent(activeMissions[i].requirements, 1)
               > SumAmount(activeMissions[i].requirements, 1)


----------------------------------------------------------------------------
(* The run of completeMission. *)

\* the effect types a run of completeMission produces after `completed`
RunTypes == {"reward", "missionCompleted", "allMissionsCompleted", "saveRequested"}

\* the positions where a run of completeMission starts
RunStarts(effs) == {k \in 1..Len(effs) : effs[k].type = "completed"}

\* the length of the run that starts at k: the marking, one entry for each
\* reward, the notification, the celebration when there is one, the save
RunLength(effs, k) ==
    LET n == Len(activeMissions[MissionIndex(activeMissions, effs[k].missionId)].rewards)
    IN IF k + n + 2 <= Len(effs) /\ effs[k + n + 2].type = "allMissionsCompleted"
       THEN n + 4 ELSE n + 3

\* C26: within one run of completeMission the effects come in this order:
\* the completed flag and the id in completedMissions, every reward in list
\* order, the mission-completed notification, the all-missions check (with
\* the allMissionsCompleted notification when due), and only then the save
\* request; no notification or save of a mission comes before its rewards.
C26_CompletionOrder ==
    /\ \A k \in RunStarts(effects) :
        LET mission == activeMissions[MissionIndex(activeMissions, effects[k].missionId)]
            n == Len(mission.rewards)
            last == k + RunLength(effects, k) - 1
        IN /\ mission.completed /\ mission.id \in completedMissions
           /\ last <= Len(effects)
           /\ \A r \in 1..n :
                  effects[k + r] = [type |-> "reward", reward |-> mission.rewards[r]]
           /\ effects[k + n + 1].type = "missionCompleted"
           /\ effects[k + n + 1].missionId = mission.id
           /\ effects[last].type = "saveRequested"
           /\ \A p \in (k + n + 2)..(last - 1) : effects[p].type = "allMissionsCompleted"
    /\ \A p \in 1..Len(effects) :
        effects[p].type \in RunTypes
            => \E k \in RunStarts(effects) : k < p /\ p < k + RunLength(effects, k)

\* one call completed two missions, the second with the celebration
C26_TwoRunsAndCelebration ==
    /\ Cardinality(RunStarts(effects)) = 2
    /\ Emits(effects, "allMissionsCompleted")
    /\ effects[Len(effects)].type = "saveRequested"


\* C27: completion is atomic for every other operation.  No step leaves a
\* mission with progress >= 1 and completed = false, and a step that sets
\* completed flags leaves the record with the rewards of exactly those
\* missions applied and their ids in completedMissions: when
\* trackBlockPlace/trackBlockBreak returns, completion and rewards of every
\* mission that reached its threshold in the call have taken effect.  The
\* states between steps include those with a save or a load in flight.
C27_CompletionAtomic ==
    [][/\ \A i \in 1..Len(activeMissions') :
            LET mission == activeMissions'[i]
            IN (\/ FracGeq1(mission.progress)
                \/ SumCurrent(mission.requirements, 1) >= SumAmount(mission.requirements, 1))
                   => mission.completed
       /\ (Len(activeMissions') = Len(activeMissions) /\ playerIdentity # Null)
            => LET done == NewlyCompleted(activeMissions, activeMissions')
                   expected == PayloadAfterRewards(done)
               IN done # {}
                    => /\ playerIdentity' # Null
                       /\ playerIdentity'.experience = expected.experience
                       /\ playerIdentity'.level = expected.level
                       /\ playerIdentity'.nectarBalance = expected.nectarBalance
                       /\ playerIdentity'.traits = expected.traits
                       /\ \A name \in DOMAIN playerIdentity'.resources :
                              playerIdentity'.resources[name].amount
                                  = expected.resources[name]
                       /\ completedMissions' = expected.completedMissions
                       /\ EmitCount(effects', "reward")
                              = SumOver([i \in done |-> Len(activeMissions[i].rewards)], done)]_vars

\* a mission was completed and rewarded by a call made while a connectWallet
\* was waiting for its load, and the save of that completion is in flight
C27_CompletedAtSuspensionPoints ==
    /\ pendingLoad > 0
    /\ saves # <<>>
    /\ CompletedBy(effects) # {}
    /\ playerIdentity # Null
    /\ playerIdentity.experience > 0


----------------------------------------------------------------------------
(* Requirement counters. *)

\* C28: action events only visit Active missions: a mission that is
\* completed when trackBlockPlace/trackBlockBreak is called comes out of the
\* call with the same requirement counters, progress and completed flag.
C28_CompletedMissionsUntouched ==
    [][\A blockType \in BlockTypes, prefix \in {"place_", "break_"} :
         IsTrackStep(prefix, blockType)
            => /\ Len(activeMissions') = Len(activeMissions)
               /\ \A i \in 1..Len(activeMissions) :
                    activeMissions[i].completed
                        => /\ activeMissions'[i].requirements = activeMissions[i].requirements
                           /\ activeMissions'[i].progress = activeMissions[i].progress
                           /\ activeMissions'[i].completed]_vars

\* a mission completed by an earlier call has seen more matching actions
\* than its counters show
C28_MatchingActionAfterCompletion ==
    \E i \in 1..Len(activeMissions) :
        /\ activeMissions[i].completed
        /\ activeMissions[i].id \notin CompletedBy(effects)
        /\ Len(activeMissions[i].requirements) = 1
        /\ hits[i] > activeMissions[i].requirements[1].current


\* C29 as stated: for every requirement of every mission, current <= amount
\* in every state in which the mission's progress is below 1.
C29_CurrentWithinAmountBelowOne ==
    \A i \in 1..Len(activeMissions) :
        ~FracGeq1(activeMissions[i].progress)
            => \A j \in 1..Len(activeMissions[i].requirements) :
                   activeMissions[i].requirements[j].current
                       <= activeMissions[i].requirements[j].amount

\* C29: what bounds the counters is the mission's total.  While progress is
\* below 1 the counters sum to less than the needed amounts; in every state
\* each counter is at most the sum of the needed amounts, and the counters
\* sum to at most that sum plus one for each further requirement the
\* completing event matched; so the single requirement of a mission never
\* exceeds its amount, while a requirement of a mission with several can
\* exceed its own amount with progress still below 1.
C29_CountersBoundedByTotal ==
    \A i \in 1..Len(activeMissions) :
        LET reqs == activeMissions[i].requirements
            total == SumAmount(reqs, 1)
            sum == SumCurrent(reqs, 1)
        IN /\ ~FracGeq1(activeMissions[i].progress) => sum < total
           /\ sum <= total + Len(reqs) - 1
           /\ \A j \in 1..Len(reqs) : reqs[j].current <= total
           /\ Len(reqs) = 1 => reqs[1].current <= reqs[1].amount

\* a requirement above its amount in a mission whose progress is below 1
C29_OverAmountBelowOne ==
    \E i \in 1..Len(activeMissions) :
        /\ ~FracGeq1(activeMissions[i].progress)
        /\ ~activeMissions[i].completed
        /\ \E j \in 1..Len(activeMissions[i].requirements) :
               activeMissions[i].requirements[j].current
                   > activeMissions[i].requirements[j].amount
        /\ actionCounts # EmptyMap


----------------------------------------------------------------------------
(* The celebration. *)

\* C30: the allMissionsCompleted notification carries totalXP = the
\* record's experience, totalNectar = its nectarBalance, level = its level
\* and completedMissions = the whole completedMissions set as they are when
\* it is emitted: the mission whose completion triggered it is in the set
\* and its rewards are in the totals, which are those of the save request
\* built right after the emission and of the record the call leaves.
C30_CelebrationCarriesRecord ==
    \A k \in 1..Len(effects) :
        effects[k].type = "allMissionsCompleted"
            => /\ playerIdentity # Null
               /\ effects[k].totalXP = playerIdentity.experience
               /\ effects[k].totalNectar = playerIdentity.nectarBalance
               /\ effects[k].level = playerIdentity.level
               /\ effects[k].completedMissions = completedMissions
               /\ k > 1 /\ effects[k - 1].type = "missionCompleted"
               /\ effects[k - 1].missionId \in effects[k].completedMissions
               /\ k < Len(effects) /\ effects[k + 1].type = "saveRequested"
               /\ effects[k + 1].data.experience = effects[k].totalXP
               /\ effects[k + 1].data.nectarBalance = effects[k].totalNectar
               /\ effects[k + 1].data.level = effects[k].level
               /\ effects[k + 1].data.completedMissions = effects[k].completedMissions

\* the celebration of a session whose last completion raised the level
C30_CelebratedAtLevelTwo ==
    \E k \in 1..Len(effects) :
        /\ effects[k].type = "allMissionsCompleted"
        /\ effects[k].level = 2
        /\ effects[k].totalXP >= 100
        /\ Cardinality(effects[k].completedMissions) >= 2


----------------------------------------------------------------------------
(* The record and the completed missions. *)

\* the missions whose completed flag is true
CompletedIndexes == {i \in 1..Len(activeMissions) : activeMissions[i].completed}

\* the record holds the rewards of the completed missions and nothing else
Conserved ==
    playerIdentity # Null =>
        LET done == CompletedIndexes
            total(type) ==
                SumOver([i \in done |->
                            RewardTotal(activeMissions[i].rewards, 1, type)], done)
            count(type, name) ==
                SumOver([i \in done |->
                            RewardCount(activeMissions[i].rewards, type, name)], done)
        IN /\ playerIdentity.experience = total("xp")
           /\ playerIdentity.nectarBalance = total("nectar")
           /\ \A name \in DOMAIN playerIdentity.traits :
                  playerIdentity.traits[name] = count("trait", name)
           /\ \A name \in DOMAIN playerIdentity.resources :
                  playerIdentity.resources[name].amount = count("resource", name)

\* C31: in a session started from a fresh record the record holds exactly
\* the rewards of the missions whose completed flag is true: no step of the
\* session other than the return of a load breaks that, and a step that
\* completes no mission (an action, a save outcome, an accessor call) leaves
\* the record unchanged.
C31_RewardConservation ==
    [][(isConnected /\ isConnected' /\ ~Emits(effects', "connectWalletReturned"))
         => /\ Conserved => Conserved'
            /\ (\/ Emits(effects', "saveLogged")
                \/ Emits(effects', "stats")
                \/ (actionCounts' # actionCounts /\ CompletedBy(effects') = {}))
                   => playerIdentity' = playerIdentity]_vars


\* C32: in every state of a connected session, also when completedMissions
\* was loaded from persistence, completedMissions is exactly the set of the
\* ids of the catalog missions whose completed flag is true.
C32_CompletedSetMatchesFlags ==
    isConnected
        => completedMissions = {activeMissions[i].id : i \in CompletedIndexes}

\* C33: a mission whose id is in the completedMissions set loaded at connect
\* is not completed or rewarded again: no block action completes a mission
\* whose id is already in completedMissions.
C33_LoadedCompletionNotRepeated ==
    [][CompletedBy(effects') \cap completedMissions = {}]_vars


----------------------------------------------------------------------------
(* The session flag. *)

\* C34: whenever isConnected is false the mission catalog, completedMissions
\* and actionCounts are empty, also when disconnectWallet ran while a
\* connectWallet was suspended at one of its awaits and that call resumed.
C34_DisconnectedIsEmpty ==
    ~isConnected
        => /\ activeMissions = <<>>
           /\ completedMissions = {}
           /\ actionCounts = EmptyMap

\* C35: isConnected is true exactly when the player record is not null, in
\* every state between operations and at every await of connectWallet.
\* So the call that completed missions found a record to reward and
\* requested a save for each of them.
C35_ConnectedIffRecord ==
    /\ isConnected <=> playerIdentity # Null
    /\ CompletedBy(effects) # {}
         => /\ playerIdentity # Null
            /\ EmitCount(effects, "saveRequested") = EmitCount(effects, "completed")

\* a mission was completed and rewarded while a connectWallet of the open
\* session was suspended at its load
C35_RewardedAtAwait ==
    /\ isConnected
    /\ pendingLoad > 0
    /\ CompletedBy(effects) # {}
    /\ playerIdentity # Null
    /\ playerIdentity.nectarBalance > 0


\* the step belongs to connectWallet, disconnectWallet, getCompletionStats
\* or the settling of a save
OtherOperation ==
    \/ pendingEnsure' # pendingEnsure
    \/ pendingLoad' # pendingLoad
    \/ Emits(effects', "walletDisconnected")
    \/ Emits(effects', "stats")
    \/ Emits(effects', "saveLogged")

\* C36: trackBlockPlace and trackBlockBreak called while isConnected is
\* false change nothing: actionCounts, the missions' counters, progress and
\* completed flags, the record and completedMissions are as before, and the
\* call produces no notification and no save request.
C36_DisconnectedActionIgnored ==
    [][(~isConnected /\ ~OtherOperation)
         => /\ actionCounts' = actionCounts
            /\ activeMissions' = activeMissions
            /\ playerIdentity' = playerIdentity
            /\ completedMissions' = completedMissions
            /\ saves' = saves
            /\ effects' = <<>>
            /\ ~isConnected']_vars

\* a block action was ignored on a disconnected service whose catalog is
\* installed (by a connectWallet that resumed after the disconnect) and has
\* a mission every placement would complete
C36_IgnoredWithCatalogInstalled ==
    /\ ~isConnected
    /\ pendingEnsure = 0 /\ pendingLoad = 0
    /\ effects = <<>>
    /\ actionCounts = EmptyMap
    /\ \E i \in 1..Len(activeMissions) :
           /\ activeMissions[i].id = "first_builder"
           /\ ~activeMissions[i].completed
           /\ activeMissions[i].requirements[1].current = 0


----------------------------------------------------------------------------
(* Progress of a session whose placements keep coming (SpecPlacing). *)

----------------------------------------------------------------------------
(* Block breaking and mission progress. *)

\* some mission that was not yet completed is further on after the step:
\* a requirement counted more, its progress changed, or it completed
SomeMissionAdvanced ==
    \E i \in 1..Len(activeMissions) :
        /\ ~activeMissions[i].completed
        /\ i <= Len(activeMissions')
        /\ \/ activeMissions'[i].completed
           \/ activeMissions'[i].progress # activeMissions[i].progress
           \/ \E r \in 1..Len(activeMissions[i].requirements) :
                  activeMissions'[i].requirements[r].current
                      > activeMissions[i].requirements[r].current

\* C38: with the default mission catalog installed and a mission still to
\* complete, a connected trackBlockBreak call advances the progress of at
\* least one not-yet-completed mission, as a placement does.
C38_BreakAdvancesMission ==
    [][(/\ \E blockType \in BlockTypes : IsTrackStep("break_", blockType)
        /\ defaultMissions = DefaultMissionList
        /\ Len(activeMissions) = Len(DefaultMissionList)
        /\ ~areAllMissionsCompleted)
           => SomeMissionAdvanced]_vars


----------------------------------------------------------------------------
(* The one service instance (SpecSingleton). *)

\* the step leaves the object's fields, the calls in flight and _instance
\* as they were
InstanceUntouched ==
    UNCHANGED <<isConnected, playerIdentity, activeMissions, completedMissions,
                actionCounts, pendingEnsure, pendingLoad, saves, _instance>>

\* the one entry of the call's effects, when it is of one of the given types
ReturnOf(effs, types) ==
    IF Len(effs) = 1 /\ effs[1].type \in types THEN effs[1].value ELSE -1

\* C39: instance() before any init() fails with 'HoneycombService not
\* initialized' and creates nothing; the first init() creates the instance;
\* every later init() or instance() returns that same instance and leaves
\* its state untouched; and no step replaces the instance once it exists.
C39_OneInstance ==
    [][/\ (Emits(effects', "instanceThrew") \/ Emits(effects', "instanceReturned"))
            => /\ InstanceUntouched
               /\ IF _instance = 0
                  THEN effects' = << [type |-> "instanceThrew",
                                      value |-> "HoneycombService not initialized"] >>
                  ELSE ReturnOf(effects', {"instanceReturned"}) = _instance
       /\ Emits(effects', "initReturned")
            => /\ ReturnOf(effects', {"initReturned"}) = _instance'
               /\ IF _instance = 0 THEN _instance' = 1 ELSE InstanceUntouched
       /\ _instance # 0 => _instance' = _instance]_vars

\* a later init() on a connected service that has counted an action
C39_LaterInitOnUsedService ==
    /\ _instance = 1
    /\ effects = << [type |-> "initReturned", value |-> 1] >>
    /\ isConnected
    /\ actionCounts # EmptyMap

====
